---- MODULE Spec2Model ----
(***************************************************************************)
(* A model of v8pp/class.hpp: class_info (cast table and object registry), *)
(* class_singleton<T> (the per-isolate type descriptor and the descriptor  *)
(* directory kept in the isolate's data slot) and the parts of class_<T>   *)
(* that reach them.                                                        *)
(*                                                                         *)
(* A descriptor pointer is the pair (isolate, position in that isolate's   *)
(* singletons vector); inside one isolate it is written as the position.   *)
(* A proxy handle is the proxy's position in the proxies heap; 0 is the    *)
(* empty handle.  A native pointer is an integer; 0 is nullptr.            *)
(***************************************************************************)
EXTENDS Integers, Sequences, FiniteSets, TLC

VARIABLES
    ndebug,       \* TRUE when the build defines NDEBUG (assert compiles to nothing)
    aborted,      \* "" or the message of the assert that ended the process
    next_index,   \* register_class: static type_index next_index
    class_type,   \* class_type<T>: static my_type per native type, NoType before its first use
    singletons,   \* per isolate: the vector kept in V8PP_ISOLATE_DATA_SLOT, of class_singleton objects
    returned,     \* per isolate and native type: the descriptors instance() has returned so far
    proxies,      \* the script heap: the proxy objects created by NewInstance
    live,         \* native pointers whose object is allocated
    destroyLog,   \* per native pointer: how often factory<T>::destroy ran on it
    last          \* the last call made and how it ended

vars == <<ndebug, aborted, next_index, class_type, singletons, returned,
          proxies, live, destroyLog, last>>

-----------------------------------------------------------------------------
(* Bounds of the model *)

MaxProxies == 2

\* the longest prototype chain of a value handed to unwrap_object
MaxChain == 2

\* the isolates of the process
Isolates == {1, 2}

-----------------------------------------------------------------------------
(* The embedder's native types.  C derives from B and M, B derives from A;  *)
(* A and B subobjects sit at offset 0 of a C, the M subobject at offset 1.  *)

Types == {"A", "B", "M", "C"}

NoType == -1

NativeBases(T) ==
    CASE T = "C" -> {"B", "M"}
      [] T = "B" -> {"A"}
      [] OTHER   -> {}

\* std::is_base_of<U, T>: reflexive for class types, and transitive
is_base_of(U, T) ==
    \/ U = T
    \/ U \in NativeBases(T)
    \/ \E V \in NativeBases(T) : U \in NativeBases(V)

SubobjectOffset(T, U) == IF T = "C" /\ U = "M" THEN 1 ELSE 0

\* the cast_function of inherit<U>() on class_singleton<T>:
\* static_cast<U*>(static_cast<T*>(ptr)); f is the pair <<T, U>>
StaticCast(f, ptr) == ptr + SubobjectOffset(f[1], f[2])

\* the pointers an embedder holds to objects, by static type
Objects == {10, 20}
PtrsOf(T) == {StaticCast(<<"C", T>>, o) : o \in Objects}
Ptrs == UNION {PtrsOf(T) : T \in Types}

-----------------------------------------------------------------------------
(* class_info *)

\* class_info(type) and class_singleton(isolate, type): no bases, no
\* derivatives, no objects, ctor_ null
NewInfo(type) ==
    [type_ |-> type, bases_ |-> <<>>, derivatives_ |-> <<>>,
     objects_ |-> <<>>, ctor_ |-> FALSE]

\* objects_: a function from the native pointers that have an entry to the
\* handle of the entry (a strong persistent until remove_object resets it)
HasObject(info, ptr) == ptr \in DOMAIN info.objects_

ObjectAt(info, ptr) == info.objects_[ptr]

\* add_base that records the base and forgets the back-reference
AddBaseOneWay(dir, d, b, f) ==
    [err |-> "",
     dir |-> [dir EXCEPT ![d].bases_ = Append(@, [info |-> b, cast |-> f])]]

\* add_base without the duplicate check
AddBaseNoCheck(dir, d, b, f) ==
    LET withBase == [dir EXCEPT ![d].bases_ = Append(@, [info |-> b, cast |-> f])]
    IN  [err |-> "",
         dir |-> [withBase EXCEPT ![b].derivatives_ = Append(@, d)]]

\* add_base that links the derivative before it looks for a duplicate
AddBaseLinkFirst(dir, d, b, f) ==
    IF \E i \in DOMAIN dir[d].bases_ : dir[d].bases_[i].info = b
    THEN [err |-> "duplicated base class",
          dir |-> [dir EXCEPT ![b].derivatives_ = Append(@, d)]]
    ELSE AddBaseNoCheck(dir, d, b, f)

\* class_info::add_base on descriptor d of directory dir
AddBase(dir, d, b, f) ==
    IF \E i \in DOMAIN dir[d].bases_ : dir[d].bases_[i].info = b
    THEN [err |-> "duplicated base class", dir |-> dir]
    ELSE AddBaseNoCheck(dir, d, b, f)

Min(S) == CHOOSE x \in S : \A y \in S : x <= y

\* class_info::cast.  stack holds the descriptors whose cast is being
\* evaluated: control flow depends on (descriptor, type) only, so entering a
\* descriptor that is on the stack recurses without end ("overflow").
RECURSIVE Cast(_, _, _, _, _)
RECURSIVE CastSlow(_, _, _, _, _, _)
Cast(dir, d, ptr, type, stack) ==
    IF d \in stack THEN [res |-> "overflow", ptr |-> ptr]
    ELSE IF type = dir[d].type_ THEN [res |-> "true", ptr |-> ptr]
    ELSE LET bs == dir[d].bases_
             direct == {i \in DOMAIN bs : dir[bs[i].info].type_ = type}
         IN  IF direct # {}
             THEN [res |-> "true", ptr |-> StaticCast(bs[Min(direct)].cast, ptr)]
             ELSE CastSlow(dir, d, ptr, type, stack \cup {d}, 1)

CastSlow(dir, d, ptr, type, stack, i) ==
    LET bs == dir[d].bases_
    IN  IF i > Len(bs) THEN [res |-> "false", ptr |-> ptr]
        ELSE LET r == Cast(dir, bs[i].info, StaticCast(bs[i].cast, ptr), type, stack)
             IN  IF r.res = "false"
                 THEN CastSlow(dir, d, ptr, type, stack, i + 1)
                 ELSE r

\* class_info::find_object; 0 is the empty handle, -1 stands for a recursion
\* without end (a descriptor reached again while it is being searched)
RECURSIVE FindObject(_, _, _, _)
RECURSIVE FindInDerivatives(_, _, _, _, _)
FindObject(dir, d, ptr, stack) ==
    IF d \in stack THEN -1
    ELSE IF HasObject(dir[d], ptr) THEN ObjectAt(dir[d], ptr)
    ELSE FindInDerivatives(dir, d, ptr, stack \cup {d}, 1)

FindInDerivatives(dir, d, ptr, stack, i) ==
    IF i > Len(dir[d].derivatives_) THEN 0
    ELSE LET r == FindObject(dir, dir[d].derivatives_[i], ptr, stack)
         IN  IF r = 0 THEN FindInDerivatives(dir, d, ptr, stack, i + 1) ELSE r

-----------------------------------------------------------------------------
(* class_singleton<T>::instance and the descriptor directory *)

\* class_type() without the static: register_class on every call
ClassTypeReregister(T) ==
    [cls |-> [class_type EXCEPT ![T] = next_index], nxt |-> next_index + 1]

\* class_type(): the type index of T, taken from register_class on first use
ClassType(T) ==
    IF class_type[T] = NoType
    THEN [cls |-> [class_type EXCEPT ![T] = next_index], nxt |-> next_index + 1]
    ELSE [cls |-> class_type, nxt |-> next_index]

\* class_singleton<T>::instance(isolate)
Instance(iso, T) ==
    LET ct == ClassType(T)
        my_type == ct.cls[T]
        dir == singletons[iso]
    IN  IF my_type < Len(dir)
        THEN [cls |-> ct.cls, nxt |-> ct.nxt, dirs |-> singletons,
              result |-> my_type + 1]
        ELSE [cls |-> ct.cls, nxt |-> ct.nxt,
              dirs |-> [singletons EXCEPT ![iso] = Append(dir, NewInfo(my_type))],
              result |-> Len(dir) + 1]

-----------------------------------------------------------------------------
(* Calls and their outcome *)

\* the last call when it ran into an error, else NoCall.  op: the operation;
\* err: the what() of the exception it threw, or the message of the assert
\* whose condition was false (the process ends on it unless NDEBUG is defined)
NoCall == [op |-> "", ret |-> 0, err |-> ""]

Call(op, ret, err) == [op |-> op, ret |-> ret, err |-> err]

Running == aborted = ""

\* the order in which the embedder first names its types in isolate 1
TypeOrder == <<"A", "B", "M", "C">>

TypeIndexOf(T) == (CHOOSE i \in DOMAIN TypeOrder : TypeOrder[i] = T) - 1

\* isolate 1 after class_<A>, class_<B>, class_<M>, class_<C> were constructed
\* in it, in this order; no other isolate was used
DeclaredDirs ==
    [iso \in Isolates |->
        IF iso = 1 THEN [i \in DOMAIN TypeOrder |-> NewInfo(i - 1)] ELSE <<>>]

InitCommon ==
    /\ ndebug \in BOOLEAN
    /\ aborted = ""
    /\ returned = [iso \in Isolates |-> [T \in Types |-> {}]]
    /\ proxies = <<>>
    /\ live = {}
    /\ destroyLog = [p \in Ptrs |-> 0]
    /\ last = NoCall

-----------------------------------------------------------------------------
(* The descriptor directory: class_<T>(isolate) in any order *)

InitDir ==
    /\ InitCommon
    /\ next_index = 0
    /\ class_type = [T \in Types |-> NoType]
    /\ singletons = [iso \in Isolates |-> <<>>]

\* class_<T>::class_(isolate): resolves the descriptor through instance()
InstanceCall(iso, T) ==
    /\ Running
    /\ LET r == Instance(iso, T)
       IN  /\ class_type' = r.cls
           /\ next_index' = r.nxt
           /\ singletons' = r.dirs
           /\ returned' = [returned EXCEPT ![iso][T] = @ \cup {r.result}]
           /\ last' = Call("instance", 0, "")
    /\ UNCHANGED <<ndebug, aborted, proxies, live, destroyLog>>

NextDir == \E iso \in Isolates, T \in Types : InstanceCall(iso, T)

SpecDir == InitDir /\ [][NextDir]_vars

-----------------------------------------------------------------------------
(* The cast table: inherit<U>() declarations in any order *)

InitCast ==
    /\ InitCommon
    /\ next_index = Len(TypeOrder)
    /\ class_type = [T \in Types |-> TypeIndexOf(T)]
    /\ singletons = DeclaredDirs

\* the descriptor of T in isolate iso once class_<T>(iso) was constructed
\* there in TypeOrder
DescOf(T) == TypeIndexOf(T) + 1

\* class_<T>::inherit<U>() on the facade of isolate iso, down to add_base.
\* A duplicate hits assert(false) (the process ends) or, under NDEBUG, throws.
Inherit(iso, T, U) ==
    /\ Running
    /\ is_base_of(U, T)
    /\ class_type[T] # NoType /\ class_type[T] < Len(singletons[iso])
    /\ LET d == class_type[T] + 1
           b == Instance(iso, U)
           r == AddBase(b.dirs[iso], d, b.result, <<T, U>>)
       IN  /\ class_type' = b.cls
           /\ next_index' = b.nxt
           /\ singletons' = [b.dirs EXCEPT ![iso] = r.dir]
           /\ aborted' = IF r.err # "" /\ ~ndebug THEN "duplicated inheritance" ELSE aborted
           /\ last' = Call("inherit", 0, IF ndebug THEN r.err ELSE "")
    /\ UNCHANGED <<ndebug, returned, proxies, live, destroyLog>>

NextCast == \E iso \in Isolates, T \in Types, U \in Types : Inherit(iso, T, U)

SpecCast == InitCast /\ [][NextCast]_vars

-----------------------------------------------------------------------------
(* Wrapped objects: registry, proxies, garbage collection *)

\* what the embedder's program wraps and destroys, as <<type, pointer>>: its
\* objects, which are of the most derived type C; and the types for which it
\* declares a constructor signature
Wrappable == {<<"C", o>> : o \in Objects}
WrapTypes == {w[1] : w \in Wrappable}
CtorTypes == {"C"}

\* the inherit<U>() declarations of two embedder programs, as <<T, U>> in the
\* order they are made: the hierarchy C -> B -> A, C -> M; and the hierarchy
\* C -> B -> A, in which M is not declared as a base, with A declared as a
\* base of itself first
Declarations ==
    { << <<"B", "A">>, <<"C", "B">>, <<"C", "M">> >>,
      << <<"A", "A">>, <<"B", "A">>, <<"C", "B">> >> }

RECURSIVE Declare(_, _)
Declare(dir, decls) ==
    IF decls = <<>> THEN dir
    ELSE LET T == Head(decls)[1]
             U == Head(decls)[2]
         IN  Declare(AddBase(dir, DescOf(T), DescOf(U), <<T, U>>).dir, Tail(decls))

InitObjects ==
    /\ InitCommon
    /\ next_index = Len(TypeOrder)
    /\ class_type = [T \in Types |-> TypeIndexOf(T)]
    /\ \E decls \in Declarations :
          singletons = [DeclaredDirs EXCEPT ![1] = Declare(@, decls)]

\* a proxy: the two internal fields, the type T of the class_singleton<T> that
\* made a weak persistent for it ("" when none; its parameter is slot0),
\* whether script code or the caller still references it, whether the
\* collector has not reclaimed it yet, and which object at the pointer it was
\* made for (born: how often the destroy hook had run on the pointer before)
\* a proxy whose internal field 0 was never set
NewProxyField0Unset(iso, ptr, d, weakT) ==
    [iso |-> iso, slot0 |-> 0, slot1 |-> d, weak |-> weakT, held |-> TRUE, alive |-> TRUE,
     born |-> destroyLog[ptr]]

NewProxy(iso, ptr, d, weakT) ==
    [iso |-> iso, slot0 |-> ptr, slot1 |-> d, weak |-> weakT, held |-> TRUE, alive |-> TRUE,
     born |-> destroyLog[ptr]]

Collected ==
    [iso |-> 0, slot0 |-> 0, slot1 |-> 0, weak |-> "", held |-> FALSE, alive |-> FALSE,
     born |-> 0]

\* a registry entry holds a strong persistent to proxy h
Pinned(h) ==
    \E iso \in Isolates : \E d \in DOMAIN singletons[iso] :
        \E k \in DOMAIN singletons[iso][d].objects_ :
            singletons[iso][d].objects_[k] = h

\* class_info::add_object under NDEBUG: emplace keeps an entry that exists
AddObject(info, ptr, h) ==
    IF HasObject(info, ptr) THEN info
    ELSE [info EXCEPT !.objects_ =
             [k \in DOMAIN info.objects_ \cup {ptr} |->
                 IF k = ptr THEN h ELSE info.objects_[k]]]

\* class_info::remove_object that runs the destroy hook without an entry
RemoveObjectUnguarded(info, ptr) ==
    [info |-> [info EXCEPT !.objects_ =
                  [k \in DOMAIN info.objects_ \ {ptr} |-> info.objects_[k]]],
     destroyed |-> {ptr}]

\* class_info::remove_object with a destroy hook, past its assert: the
\* descriptor afterwards and the pointers the hook ran on
RemoveObject(info, ptr) ==
    IF HasObject(info, ptr)
    THEN [info |-> [info EXCEPT !.objects_ =
                       [k \in DOMAIN info.objects_ \ {ptr} |-> info.objects_[k]]],
          destroyed |-> {ptr}]
    ELSE [info |-> info, destroyed |-> {}]

\* the orders in which a range-for may visit the keys S of an unordered_map
RECURSIVE Orders(_)
Orders(S) ==
    IF S = {} THEN {<<>>}
    ELSE UNION {{<<x>> \o o : o \in Orders(S \ {x})} : x \in S}

\* what the destroy hooks do while remove_objects iterates over the keys S:
\* nothing more than free the object, or the hook of entry at (the object's
\* destructor, or a finalizer run by a collection pass it triggers) calls
\* destroy_object for another entry re of the same registry
NoReentry == [at |-> 0, re |-> 0]

Reentries(S) ==
    {NoReentry} \cup {h \in [at : S, re : S] : h.at # h.re}

NoneDestroyed == [p \in Ptrs |-> 0]

\* the destroy hook ran once more on each pointer of S
Plus(cnt, S) == [p \in Ptrs |-> IF p \in S THEN cnt[p] + 1 ELSE cnt[p]]

\* class_info::remove_objects with a destroy hook: the loop over objects_ in
\* the given order, the hook on each entry it visits, and clear() at the end;
\* cnt counts the runs of the hook per pointer.  An entry the hook erased is
\* not visited; an entry visited before stays in objects_ until clear().
RECURSIVE RemoveObjects(_, _, _, _)
RemoveObjects(info, order, hook, cnt) ==
    IF order = <<>> THEN [info |-> [info EXCEPT !.objects_ = <<>>], destroyed |-> cnt]
    ELSE LET object == Head(order)
             inner == IF hook.at = object
                      THEN RemoveObject(info, hook.re)
                      ELSE [info |-> info, destroyed |-> {}]
         IN  IF ~HasObject(info, object)
             THEN RemoveObjects(info, Tail(order), hook, cnt)
             ELSE RemoveObjects(inner.info, Tail(order), hook,
                                Plus(Plus(cnt, {object}), inner.destroyed))

\* factory<T>::destroy ran once on each pointer of S
Destroyed(S) ==
    /\ destroyLog' = [p \in Ptrs |-> IF p \in S THEN destroyLog[p] + 1 ELSE destroyLog[p]]
    /\ live' = live \ S

\* factory<T>::destroy ran cnt[p] times on each pointer p
DestroyedTimes(cnt) ==
    /\ destroyLog' = [p \in Ptrs |-> destroyLog[p] + cnt[p]]
    /\ live' = live \ {p \in Ptrs : cnt[p] > 0}

\* the facade of T was constructed in isolate iso
Declared(iso, T) == class_type[T] # NoType /\ class_type[T] < Len(singletons[iso])

\* wrap_external_object(wrap) and wrap_object(wrap) on the descriptor that
\* instance() gives for T: NewInstance, the two fields, add_object, and for
\* wrap_object the weak persistent with its callback
Wrap(iso, T, ptr, owned) ==
    LET d == Instance(iso, T).result
        h == Len(proxies) + 1
        dup == HasObject(singletons[iso][d], ptr)
    IN  /\ proxies' = Append(proxies, NewProxy(iso, ptr, d, IF owned THEN T ELSE ""))
        /\ singletons' = [singletons EXCEPT ![iso][d] = AddObject(@, ptr, h)]
        /\ aborted' = IF dup /\ ~ndebug THEN "duplicate object" ELSE aborted

\* class_<T>::reference_external(isolate, ext)
ReferenceExternal(iso, T, ptr) ==
    /\ Running /\ Declared(iso, T)
    /\ Len(proxies) < MaxProxies
    /\ Wrap(iso, T, ptr, FALSE)
    /\ live' = live \cup {ptr}
    /\ last' = NoCall
    /\ UNCHANGED <<ndebug, next_index, class_type, returned, destroyLog>>

\* class_<T>::import_external(isolate, ext)
ImportExternal(iso, T, ptr) ==
    /\ Running /\ Declared(iso, T)
    /\ Len(proxies) < MaxProxies
    /\ Wrap(iso, T, ptr, TRUE)
    /\ live' = live \cup {ptr}
    /\ last' = NoCall
    /\ UNCHANGED <<ndebug, next_index, class_type, returned, destroyLog>>

\* class_<T>::ctor<Args...>()
Ctor(iso, T) ==
    /\ Running /\ Declared(iso, T)
    /\ singletons' = [singletons EXCEPT ![iso][Instance(iso, T).result].ctor_ = TRUE]
    /\ last' = NoCall
    /\ UNCHANGED <<ndebug, aborted, next_index, class_type, returned, proxies,
                   live, destroyLog>>

\* the js_func callback without its catch: the exception of wrap_object(args)
\* leaves the callback and ends the process
ConstructUncaught(iso, T) ==
    /\ Running /\ Declared(iso, T)
    /\ ~singletons[iso][Instance(iso, T).result].ctor_
    /\ aborted' = "create is not allowed"
    /\ last' = Call("construct", 0, "create is not allowed")
    /\ UNCHANGED <<ndebug, next_index, class_type, singletons, returned, proxies,
                   live, destroyLog>>

\* script code calls the constructor function of T: the js_func callback,
\* wrap_object(args), and the catch that turns the exception into a script
\* exception.  factory<T>::create allocates at a pointer not in use.
Construct(iso, T) ==
    /\ Running /\ Declared(iso, T)
    /\ LET d == Instance(iso, T).result
       IN  IF singletons[iso][d].ctor_
           THEN /\ Len(proxies) < MaxProxies
                /\ \E ptr \in PtrsOf(T) \ live :
                      /\ Wrap(iso, T, ptr, TRUE)
                      /\ live' = live \cup {ptr}
                /\ last' = NoCall
           ELSE /\ last' = Call("construct", 0, "create is not allowed")
                /\ UNCHANGED <<singletons, proxies, aborted, live>>
    /\ UNCHANGED <<ndebug, next_index, class_type, returned, destroyLog>>

\* class_singleton<T>::destroy_object(obj) of the descriptor instance() gives:
\* remove_object with factory<T>::destroy
DestroyObjectOn(iso, T, ptr, op) ==
    LET d == Instance(iso, T).result
        r == RemoveObject(singletons[iso][d], ptr)
        missing == ~HasObject(singletons[iso][d], ptr)
    IN  /\ singletons' = [singletons EXCEPT ![iso][d] = r.info]
        /\ Destroyed(r.destroyed)
        /\ aborted' = IF missing /\ ~ndebug THEN "no object" ELSE aborted
        /\ last' = IF missing THEN Call(op, 0, "no object") ELSE NoCall

\* class_<T>::destroy_object(isolate, obj)
DestroyObject(iso, T, ptr) ==
    /\ Running /\ Declared(iso, T)
    /\ DestroyObjectOn(iso, T, ptr, "destroy_object")
    /\ UNCHANGED <<ndebug, next_index, class_type, returned, proxies>>

\* class_<T>::destroy_objects(isolate)
DestroyObjects(iso, T) ==
    /\ Running /\ Declared(iso, T)
    /\ LET d == Instance(iso, T).result
           keys == DOMAIN singletons[iso][d].objects_
       IN  \E order \in Orders(keys), hook \in Reentries(keys) :
               LET r == RemoveObjects(singletons[iso][d], order, hook, NoneDestroyed)
               IN  /\ singletons' = [singletons EXCEPT ![iso][d] = r.info]
                   /\ DestroyedTimes(r.destroyed)
    /\ last' = NoCall
    /\ UNCHANGED <<ndebug, aborted, next_index, class_type, returned, proxies>>

\* script code and the caller drop their last reference to proxy h
DropReference(h) ==
    /\ Running
    /\ h \in DOMAIN proxies /\ proxies[h].alive /\ proxies[h].held
    /\ proxies' = [proxies EXCEPT ![h].held = FALSE]
    /\ last' = NoCall
    /\ UNCHANGED <<ndebug, aborted, next_index, class_type, singletons, returned,
                   live, destroyLog>>

\* the collector may reclaim proxy h: nothing references it, and no strong
\* persistent holds it
Collectable(h) ==
    /\ h \in DOMAIN proxies /\ proxies[h].alive
    /\ ~proxies[h].held
    /\ ~Pinned(h)

\* a collection pass reclaims proxy h; when a weak persistent was set on it,
\* its callback runs: instance(isolate).destroy_object(parameter)
Collect(h) ==
    /\ Running
    /\ Collectable(h)
    /\ proxies' = [proxies EXCEPT ![h] = Collected]
    /\ IF proxies[h].weak # ""
       THEN DestroyObjectOn(proxies[h].iso, proxies[h].weak, proxies[h].slot0, "finalizer")
       ELSE /\ last' = NoCall
            /\ UNCHANGED <<singletons, aborted, live, destroyLog>>
    /\ UNCHANGED <<ndebug, next_index, class_type, returned>>

Next ==
    \/ \E iso \in Isolates, w \in Wrappable : ReferenceExternal(iso, w[1], w[2])
    \/ \E iso \in Isolates, w \in Wrappable : ImportExternal(iso, w[1], w[2])
    \/ \E iso \in Isolates, w \in Wrappable : DestroyObject(iso, w[1], w[2])
    \/ \E iso \in Isolates, T \in CtorTypes : Ctor(iso, T)
    \/ \E iso \in Isolates, T \in Types : Construct(iso, T)
    \/ \E iso \in Isolates, T \in WrapTypes : DestroyObjects(iso, T)
    \/ \E h \in 1..MaxProxies : DropReference(h)
    \/ \E h \in 1..MaxProxies : Collect(h)

Spec == InitObjects /\ [][Next]_vars

\* the collector runs again and again: a proxy that stays collectable is
\* reclaimed in the end.  Nothing obliges the embedder or the script to act.
FairSpec == Spec /\ WF_vars(\E h \in 1..MaxProxies : Collect(h))

\* a script value: the object followed by its prototype chain, each object
\* given as the handle of a proxy (two internal fields) or 0 (an object with
\* no internal fields); <<>> is a value that is not an object
ValueOf(h) == <<h, 0>>

\* the objects script code can reach: an object without internal fields, and
\* the proxies not reclaimed
Handles == {0} \cup {h \in DOMAIN proxies : proxies[h].alive}

\* the script values passed to unwrap_object: a value that is not an object,
\* and objects with a prototype chain of up to MaxChain objects in all
Values == UNION {[1..n -> Handles] : n \in 0..MaxChain}

\* class_singleton<T>::unwrap_object(value); 0 is nullptr, -1 a cast that
\* recursed without end
RECURSIVE UnwrapObject(_, _)
UnwrapObject(T, value) ==
    IF value = <<>> THEN 0
    ELSE LET h == Head(value)
         IN  IF h = 0 THEN UnwrapObject(T, Tail(value))
             ELSE LET ptr == proxies[h].slot0
                      info == proxies[h].slot1
                      r == Cast(singletons[proxies[h].iso], info, ptr, class_type[T], {})
                  IN  IF info = 0 THEN UnwrapObject(T, Tail(value))
                      ELSE IF r.res = "true" THEN r.ptr
                      ELSE IF r.res = "overflow" THEN -1
                      ELSE UnwrapObject(T, Tail(value))

-----------------------------------------------------------------------------
(* Properties of the descriptor directory *)

\* C2: in every isolate the directory holds at index i only the descriptor
\* whose type index is i, and all instance() calls for a type in an isolate
\* returned one and the same descriptor, whose type index is that type's.
C2_DirectoryIndexedByIdentity ==
    \A iso \in Isolates :
        /\ \A i \in DOMAIN singletons[iso] : singletons[iso][i].type_ = i - 1
        /\ \A T \in Types :
              /\ Cardinality(returned[iso][T]) <= 1
              /\ \A r \in returned[iso][T] : singletons[iso][r].type_ = class_type[T]

-----------------------------------------------------------------------------
(* Properties of the cast table *)

Descs(iso) == DOMAIN singletons[iso]

TypeIndexes == 0..(Len(TypeOrder) - 1)

BaseTargets(dir, x) == {dir[x].bases_[i].info : i \in DOMAIN dir[x].bases_}

\* the descriptors reachable from the set S over BaseLinks that stay out of avoid
RECURSIVE BaseClosure(_, _, _)
BaseClosure(dir, S, avoid) ==
    LET S2 == S \cup (UNION {BaseTargets(dir, x) : x \in S} \ avoid)
    IN  IF S2 = S THEN S ELSE BaseClosure(dir, S2, avoid)

ReachableType(dir, d, type, avoid) ==
    \E x \in BaseClosure(dir, {d}, avoid) : dir[x].type_ = type

\* the address at the end of the chosen path from d to type: the first direct
\* base of that type in registration order, else through the first base in
\* registration order from which the type is reachable; one adjustment per hop
RECURSIVE AlongBases(_, _, _, _, _)
AlongBases(dir, d, ptr, type, path) ==
    IF dir[d].type_ = type THEN ptr
    ELSE LET bs == dir[d].bases_
             direct == {i \in DOMAIN bs : dir[bs[i].info].type_ = type}
             via == {i \in DOMAIN bs :
                        /\ bs[i].info \notin path \cup {d}
                        /\ ReachableType(dir, bs[i].info, type, path \cup {d})}
         IN  IF direct # {} THEN StaticCast(bs[Min(direct)].cast, ptr)
             ELSE IF via = {} THEN 0
             ELSE AlongBases(dir, bs[Min(via)].info, StaticCast(bs[Min(via)].cast, ptr),
                             type, path \cup {d})

Acyclic(dir) ==
    \A d \in DOMAIN dir :
        d \notin BaseClosure(dir, BaseTargets(dir, d), {})

CastAgrees(dir, d, ptr, type) ==
    LET r == Cast(dir, d, ptr, type, {})
    IN  /\ (r.res = "true") <=> ReachableType(dir, d, type, {})
        /\ r.res = "true" => r.ptr = AlongBases(dir, d, ptr, type, {})

\* C3: cast(address, requestedType) on a descriptor succeeds exactly when the
\* requested type is the descriptor's own or reachable over BaseLinks, and then
\* yields the input adjusted once per hop along the chosen path.
C3_CastFollowsBaseLinks ==
    \A iso \in Isolates : \A d \in Descs(iso) : \A type \in TypeIndexes :
        \A ptr \in PtrsOf(TypeOrder[d]) :
            CastAgrees(singletons[iso], d, ptr, type)

\* the same on the hierarchies without a cycle
CastFollowsBaseLinksIfAcyclic ==
    \A iso \in Isolates : Acyclic(singletons[iso]) =>
        \A d \in Descs(iso) : \A type \in TypeIndexes :
            \A ptr \in PtrsOf(TypeOrder[d]) :
                CastAgrees(singletons[iso], d, ptr, type)

IsDirectBase(iso, T, U) ==
    \E i \in DOMAIN singletons[iso][DescOf(T)].bases_ :
        singletons[iso][DescOf(T)].bases_[i].info = DescOf(U)

\* C7: inherit<U>() on a type that already has U as a direct base is rejected
\* with an error (the thrown "duplicated base class", or the failed assertion
\* that ends a build with assertions), and the call leaves every BaseLink
\* sequence and every derivative back-reference as it was.
C7_DuplicateBaseRejected ==
    [][\A iso \in Isolates, T \in Types, U \in Types :
          (Inherit(iso, T, U) /\ IsDirectBase(iso, T, U)) =>
              /\ last'.err = "duplicated base class" \/ aborted' = "duplicated inheritance"
              /\ singletons' = singletons]_vars

\* a duplicate inherit was rejected while bases were declared
C7_Witness ==
    /\ last.op = "inherit"
    /\ last.err = "duplicated base class" \/ aborted = "duplicated inheritance"
    /\ \E d \in Descs(1) : Len(singletons[1][d].bases_) >= 2

\* how often b is a direct base of d, and how often d is a derivative of b
BaseCount(dir, d, b) ==
    Cardinality({i \in DOMAIN dir[d].bases_ : dir[d].bases_[i].info = b})

DerivativeCount(dir, b, d) ==
    Cardinality({i \in DOMAIN dir[b].derivatives_ : dir[b].derivatives_[i] = d})

\* C20: after any accepted and rejected base registrations, B is among D's
\* direct BaseLinks exactly once if and only if D is among B's derivative
\* back-references exactly once, and otherwise neither appears.
C20_BothDirectionsAgree ==
    \A iso \in Isolates : \A d \in Descs(iso) : \A b \in Descs(iso) :
        /\ BaseCount(singletons[iso], d, b) = DerivativeCount(singletons[iso], b, d)
        /\ BaseCount(singletons[iso], d, b) <= 1

\* the whole hierarchy is declared, and the last registration was a rejected
\* duplicate after which the process runs on
C20_Witness ==
    /\ IsDirectBase(1, "C", "B") /\ IsDirectBase(1, "C", "M") /\ IsDirectBase(1, "B", "A")
    /\ last = Call("inherit", 0, "duplicated base class")
    /\ Running

-----------------------------------------------------------------------------
(* Properties of wrapped objects *)

Entries(iso, d) == DOMAIN singletons[iso][d].objects_

\* proxy h was wrapped with ownership, script code no longer references it,
\* and it has not been finalized
OwnedUnreferenced(h) ==
    /\ h \in DOMAIN proxies
    /\ proxies[h].alive /\ proxies[h].weak # "" /\ ~proxies[h].held

\* the finalizer of proxy h ran
Finalized(h) == h \in DOMAIN proxies /\ ~proxies[h].alive

\* C1: once script code no longer references the proxy of an object wrapped
\* with ownership, a collection pass eventually runs its finalizer (which
\* removes the entry and runs the destroy hook), whether or not the embedder
\* calls destroy_object or destroy_objects, as long as the process runs.
C1_UnreferencedIsFinalized ==
    \A h \in 1..MaxProxies :
        OwnedUnreferenced(h) ~> (Finalized(h) \/ ~Running)

\* C4: while the entry (N, H) made by wrapping N at type T is in T's
\* registry, unwrap_object(H) at T is N and find_object(N) at T is H.
C4_WrapRoundTrip ==
    \A iso \in Isolates : \A d \in Descs(iso) : \A N \in Entries(iso, d) :
        LET H == singletons[iso][d].objects_[N]
        IN  /\ UnwrapObject(TypeOrder[d], ValueOf(H)) = N
            /\ FindObject(singletons[iso], d, N, {}) = H

\* two objects wrapped at C are registered, each found under its own proxy,
\* one of them wrapped with ownership
C4_Witness ==
    /\ Entries(1, DescOf("C")) = PtrsOf("C")
    /\ \A N \in Entries(1, DescOf("C")) :
          UnwrapObject("C", ValueOf(FindObject(singletons[1], DescOf("C"), N, {}))) = N
    /\ \E h \in DOMAIN proxies : proxies[h].weak # "" /\ Pinned(h)

DerivativeTargets(dir, x) == {dir[x].derivatives_[i] : i \in DOMAIN dir[x].derivatives_}

\* d and the descriptors that directly or transitively derive from it
RECURSIVE DerivativeClosure(_, _)
DerivativeClosure(dir, S) ==
    LET S2 == S \cup UNION {DerivativeTargets(dir, x) : x \in S}
    IN  IF S2 = S THEN S ELSE DerivativeClosure(dir, S2)

Holders(dir, d, ptr) == {x \in DerivativeClosure(dir, {d}) : HasObject(dir[x], ptr)}

FindAgrees(dir, d, ptr) ==
    LET r == FindObject(dir, d, ptr, {})
    IN  /\ (r > 0) <=> Holders(dir, d, ptr) # {}
        /\ r > 0 => \E x \in Holders(dir, d, ptr) : r = dir[x].objects_[ptr]
        /\ HasObject(dir[d], ptr) => r = dir[d].objects_[ptr]

\* C5: find_object(N) on descriptor D returns a handle exactly when the
\* registry of D or of a type that derives from D holds an entry for N, and
\* then that entry's proxy; looked up on A, an object wrapped at C gives the
\* proxy that the lookup on C gives.
C5_FindSearchesDerivatives ==
    \A iso \in Isolates : \A d \in Descs(iso) : \A ptr \in Ptrs :
        FindAgrees(singletons[iso], d, ptr)

\* the same on the hierarchies without a cycle
FindSearchesDerivativesIfAcyclic ==
    \A iso \in Isolates : Acyclic(singletons[iso]) =>
        \A d \in Descs(iso) : \A ptr \in Ptrs :
            FindAgrees(singletons[iso], d, ptr)

\* C6: for every BaseLink (Base, f) of a type and every entry (N, H) of that
\* type's registry, find_object(f(N)) on Base's descriptor returns H.
C6_FindThroughBasePointer ==
    \A iso \in Isolates : \A d \in Descs(iso) : \A N \in Entries(iso, d) :
        \A i \in DOMAIN singletons[iso][d].bases_ :
            LET base == singletons[iso][d].bases_[i]
            IN  FindObject(singletons[iso], base.info, StaticCast(base.cast, N), {})
                    = singletons[iso][d].objects_[N]

\* some registry gains an entry for N in this step
WrappedAgain(N) ==
    \E iso \in Isolates : \E d \in Descs(iso) :
        N \notin Entries(iso, d) /\ N \in DOMAIN singletons'[iso][d].objects_

\* find_object(N) is empty on descriptor d and on each of its base descriptors
NotFoundFrom(dirs, iso, d, N) ==
    \A b \in BaseClosure(dirs[iso], {d}, {}) : FindObject(dirs[iso], b, N, {}) = 0

\* C8: once the entry for N has left the registry of a type, find_object(N)
\* on that type's descriptor and on each of its base descriptors is empty,
\* and stays empty until N is wrapped again.
C8_RemovedIsNotFound ==
    [][\A iso \in Isolates : \A d \in Descs(iso) : \A N \in Ptrs :
          /\ (N \in Entries(iso, d) /\ N \notin DOMAIN singletons'[iso][d].objects_)
                => NotFoundFrom(singletons', iso, d, N)
          /\ (N \notin Entries(iso, d) /\ NotFoundFrom(singletons, iso, d, N)
                 /\ ~WrappedAgain(N))
                => NotFoundFrom(singletons', iso, d, N)]_vars

\* a destroy_object call for a pointer without an entry in the registry
RemovesMissing(iso, T, ptr) ==
    DestroyObject(iso, T, ptr) /\ ptr \notin Entries(iso, DescOf(T))

C10_ConstructNotAllowed ==
    [][\A iso \in Isolates, T \in Types :
          (Construct(iso, T) /\ ~singletons[iso][DescOf(T)].ctor_) =>
              /\ last' = Call("construct", 0, "create is not allowed")
              /\ live' = live
              /\ proxies' = proxies
              /\ singletons' = singletons
              /\ aborted' = ""]_vars

\* a construction was refused while objects were wrapped
C10_Witness ==
    /\ last = Call("construct", 0, "create is not allowed")
    /\ Running
    /\ \E d \in Descs(1) : Entries(1, d) # {}

\* N has an entry whose proxy was made by wrap_external_object alone, and no
\* proxy that carries a weak callback was made for N
ExternalOnly(iso, d, N) ==
    /\ N \in Entries(iso, d)
    /\ proxies[singletons[iso][d].objects_[N]].weak = ""
    /\ \A h \in DOMAIN proxies : proxies[h].slot0 = N => proxies[h].weak = ""

\* a collection pass, or destroy_objects on some type
CollectsOrDestroysAll ==
    \/ \E h \in 1..MaxProxies : Collect(h)
    \/ \E iso \in Isolates, T \in WrapTypes : DestroyObjects(iso, T)

\* C11: an object wrapped only through reference_external is never destroyed
\* by a collection pass or by destroy_objects: the destroy hook does not run
\* on it and it stays allocated.
C11_ExternalNeverDestroyed ==
    [][\A iso \in Isolates : \A d \in Descs(iso) : \A N \in Ptrs :
          (ExternalOnly(iso, d, N) /\ CollectsOrDestroysAll) =>
              /\ destroyLog'[N] = destroyLog[N]
              /\ N \in live']_vars

\* C12: when a destroy hook re-enters destroy_object for an entry of the
\* registry that destroy_objects is iterating, every object that had an entry
\* at the start has its destroy hook run exactly once and the registry is
\* empty at the end.
C12_DestroyAllReentrant ==
    [][\A iso \in Isolates, T \in WrapTypes :
          DestroyObjects(iso, T) =>
              /\ \A N \in Ptrs :
                    destroyLog'[N] =
                        destroyLog[N] + (IF N \in Entries(iso, DescOf(T)) THEN 1 ELSE 0)
              /\ singletons'[iso][DescOf(T)].objects_ = <<>>]_vars

\* object h has the two internal fields with a descriptor from which the
\* identity of T is reachable over BaseLinks
Unwrappable(T, h) ==
    /\ h # 0 /\ proxies[h].slot1 # 0
    /\ ReachableType(singletons[proxies[h].iso], proxies[h].slot1, class_type[T], {})

UnwrapAgrees(T, value) ==
    LET S == {i \in DOMAIN value : Unwrappable(T, value[i])}
        h == value[Min(S)]
    IN  UnwrapObject(T, value) =
            IF S = {} THEN 0
            ELSE AlongBases(singletons[proxies[h].iso], proxies[h].slot1,
                            proxies[h].slot0, class_type[T], {})

\* C13: unwrap_object at T gives not-found for a value that is not an object;
\* otherwise it gives the cast-adjusted address stored in the first object of
\* the value's prototype chain that has the two slots and a descriptor from
\* which T's identity can be reached, and not-found when there is none.
C13_UnwrapWalksPrototypes ==
    \A T \in Types : \A value \in Values : UnwrapAgrees(T, value)

\* the same while no hierarchy has a cycle
UnwrapWalksPrototypesIfAcyclic ==
    (\A iso \in Isolates : Acyclic(singletons[iso])) =>
        \A T \in Types : \A value \in Values : UnwrapAgrees(T, value)

\* d appears among the derivative back-references reachable from itself
DerivativesAcyclic(dir) ==
    \A d \in DOMAIN dir :
        d \notin DerivativeClosure(dir, DerivativeTargets(dir, d))

\* C14: after any sequence of base registrations that add_base accepted, the
\* BaseLink graph and the derivative back-reference graph have no cycle (no
\* type is its own base), and cast and find_object end on every input.
C14_AcyclicByConstruction ==
    \A iso \in Isolates :
        /\ Acyclic(singletons[iso])
        /\ DerivativesAcyclic(singletons[iso])
        /\ \A d \in Descs(iso) :
              /\ \A type \in TypeIndexes : \A ptr \in PtrsOf(TypeOrder[d]) :
                    Cast(singletons[iso], d, ptr, type, {}).res # "overflow"
              /\ \A ptr \in Ptrs : FindObject(singletons[iso], d, ptr, {}) # -1

\* a wrap of ptr at T, with or without ownership, as an external call
Wraps(iso, T, ptr) ==
    ReferenceExternal(iso, T, ptr) \/ ImportExternal(iso, T, ptr)

\* C15: wrapping an address that already has an entry in the registry of the
\* type signals an error, leaves the entry as it was, and hands back no second
\* proxy for the address that the registry does not know.
C15_DuplicateWrapRejected ==
    [][\A iso \in Isolates, w \in Wrappable :
          (Wraps(iso, w[1], w[2]) /\ w[2] \in Entries(iso, DescOf(w[1]))) =>
              /\ singletons' = singletons
              /\ aborted' = "duplicate object"]_vars

\* misses of cast, find_object and unwrap_object give false with the address
\* as passed in, the empty handle, and nullptr
MissesAreEmpty ==
    /\ \A iso \in Isolates : \A d \in Descs(iso) :
          /\ \A type \in TypeIndexes : \A ptr \in PtrsOf(TypeOrder[d]) :
                ~ReachableType(singletons[iso], d, type, {}) =>
                    Cast(singletons[iso], d, ptr, type, {}) = [res |-> "false", ptr |-> ptr]
          /\ \A ptr \in Ptrs :
                Holders(singletons[iso], d, ptr) = {} =>
                    FindObject(singletons[iso], d, ptr, {}) = 0
    /\ \A T \in Types : \A value \in Values :
          (\A i \in DOMAIN value : ~Unwrappable(T, value[i])) =>
              UnwrapObject(T, value) = 0

\* C16: a lookup miss in cast, unwrap_object or find_object gives an explicit
\* empty result (false, nullptr, the empty handle) and no error, and a failed
\* cast gives back the address as it was passed in.
C16_LookupMissIsEmpty == MissesAreEmpty

\* the same while no hierarchy has a cycle
LookupMissIsEmptyIfAcyclic ==
    (\A iso \in Isolates : Acyclic(singletons[iso])) => MissesAreEmpty

\* C18: a finalizer runs the destroy hook at most once, and only on the
\* object its own proxy was made for: not on an object that was wrapped at
\* the same address after the first one was destroyed.
C18_FinalizerDestroysOwnObject ==
    [][\A h \in 1..MaxProxies : Collect(h) =>
          \A N \in Ptrs : destroyLog'[N] # destroyLog[N] =>
              /\ N = proxies[h].slot0
              /\ destroyLog'[N] = destroyLog[N] + 1
              /\ destroyLog[N] = proxies[h].born]_vars

\* C19: when a weak callback runs and calls destroy_object for its pointer,
\* the registry of its type holds an entry for the pointer (the assert
\* "no object" holds).
C19_FinalizerFindsEntry ==
    [][\A h \in 1..MaxProxies : (Collect(h) /\ proxies[h].weak # "") =>
          HasObject(singletons[proxies[h].iso][DescOf(proxies[h].weak)],
                    proxies[h].slot0)]_vars

-----------------------------------------------------------------------------
(* Properties of type identities *)

Assigned(cls) == {T \in Types : cls[T] # NoType}

\* C17: identities come from one counter that starts at zero, in the order of
\* the first instance() call per type: no two types share one, an identity
\* once assigned stays, and a descriptor made for a type in any isolate
\* carries that one identity.
C17_IdentityFromOneCounter ==
    [][/\ \A T \in Assigned(class_type) : class_type'[T] = class_type[T]
       /\ \A T \in Assigned(class_type') \ Assigned(class_type) :
             class_type'[T] = next_index /\ next_index' = next_index + 1
       /\ \A T, U \in Assigned(class_type') :
             T # U => class_type'[T] # class_type'[U]
       /\ {class_type'[T] : T \in Assigned(class_type')} = 0..(next_index' - 1)
       /\ \A iso \in Isolates, T \in Types :
             (Len(singletons'[iso]) > Len(singletons[iso]) /\ InstanceCall(iso, T))
                => singletons'[iso][Len(singletons'[iso])].type_ = class_type'[T]]_vars

\* all types have an identity, handed out in another order than TypeOrder,
\* and both isolates hold descriptors
C17_Witness ==
    /\ Assigned(class_type) = Types
    /\ class_type["C"] = 0 /\ class_type["A"] = 3
    /\ \A iso \in Isolates : Len(singletons[iso]) >= 2

====
